---- MODULE Spec2Model ----
(***************************************************************************)
(* Model of skills/weather/scripts/weather.py: the Open-Meteo weather      *)
(* helper.  One run of main() is a sequential pipeline                     *)
(*   read input -> resolve location (-> geocoding request) ->              *)
(*   forecast request -> format output -> exit                             *)
(* with one catch-all handler that prints an error object and exits 1.     *)
(*                                                                         *)
(* Representation.                                                         *)
(*  - A Python string is a sequence of pieces; a piece is one character    *)
(*    (" ", ",", "a", a digit, ...) or an opaque literal fragment.         *)
(*  - A JSON value is a record [k, s, n, l]: kind, string pieces, number,  *)
(*    list items.  k = "absent" marks a key that is not in its mapping.    *)
(*  - Floating point numbers are integers counting 10^-5 units.            *)
(*  - A mapping is a record of JSON values, one field per key the program  *)
(*    reads.                                                               *)
(***************************************************************************)
EXTENDS Integers, Sequences, FiniteSets, TLC

----------------------------------------------------------------------------
(* Bounds *)

\* longest location string of the input that is enumerated
MaxStrLen == 2
\* longest daily array of the forecast response that is enumerated
MaxArrLen == 1

----------------------------------------------------------------------------
(* JSON values *)

JV(k, s, n, l) == [k |-> k, s |-> s, n |-> n, l |-> l]
Absent  == JV("absent", <<>>, 0, <<>>)
JNull   == JV("null", <<>>, 0, <<>>)
JNum(n) == JV("num", <<>>, n, <<>>)
JStr(s) == JV("str", s, 0, <<>>)
JList(l) == JV("list", <<>>, 0, l)

\* one unit of the fixed-point representation of floats is 10^-5
Scale == 100000

DigitChar == <<"0", "1", "2", "3", "4", "5", "6", "7", "8", "9">>

RECURSIVE Digits(_)
Digits(n) == IF n < 10 THEN <<DigitChar[n + 1]>>
             ELSE Digits(n \div 10) \o <<DigitChar[(n % 10) + 1]>>

Abs(n) == IF n < 0 THEN -n ELSE n

\* f"{x:.4f}": sign, integer part, ".", four decimals, rounded to nearest
Fmt4(x) ==
    LET q     == (Abs(x) + 5) \div 10
        whole == q \div 10000
        frac  == q % 10000
        d     == Digits(frac)
        pad   == [i \in 1..(4 - Len(d)) |-> "0"]
    IN  (IF x < 0 THEN <<"-">> ELSE <<>>) \o Digits(whole) \o <<".">> \o pad \o d

RECURSIVE DropZeros(_)
DropZeros(d) == IF Len(d) > 1 /\ d[Len(d)] = "0"
                THEN DropZeros(SubSeq(d, 1, Len(d) - 1)) ELSE d

\* repr(x) of a float: integer part, ".", the decimals without trailing zeros
FloatRepr(x) ==
    LET d   == Digits(Abs(x) % Scale)
        pad == [i \in 1..(5 - Len(d)) |-> "0"]
    IN  (IF x < 0 THEN <<"-">> ELSE <<>>) \o Digits(Abs(x) \div Scale) \o <<".">>
        \o DropZeros(pad \o d)

\* f"{latitude:.4f},{longitude:.4f}"
CoordName(lat, lon) == Fmt4(lat) \o <<",">> \o Fmt4(lon)

----------------------------------------------------------------------------
(* Python built-ins used by the script *)

\* truth value of a value, as `or` and `not` test it
Truthy(v) == CASE v.k = "null" -> FALSE
               [] v.k = "absent" -> FALSE
               [] v.k = "num" -> v.n # 0
               [] v.k = "str" -> v.s # <<>>
               [] v.k = "list" -> v.l # <<>>
               [] OTHER -> TRUE

\* a or b
PyOr(a, b) == IF Truthy(a) THEN a ELSE b

\* key in mapping
Has(m, key) == m[key].k # "absent"

\* mapping.get(key): None when the key is missing
Get(m, key) == IF Has(m, key) THEN m[key] ELSE JNull

\* mapping.get(key, default)
GetD(m, key, default) == IF Has(m, key) THEN m[key] ELSE default

\* type name of a value, as it appears in error messages
TypeName(v) == CASE v.k = "null" -> "NoneType"
                 [] v.k = "num" -> "int"
                 [] v.k = "str" -> "str"
                 [] v.k = "list" -> "list"
                 [] OTHER -> "dict"

\* str(v)
PyStr(v) == CASE v.k = "str" -> v.s
              [] v.k = "null" -> <<"None">>
              [] v.k = "num" -> FloatRepr(v.n)
              [] v.k = "list" -> <<"[...]">>
              [] OTHER -> <<"{...}">>

RECURSIVE LStrip(_, _)
LStrip(s, chars) == IF s # <<>> /\ Head(s) \in chars THEN LStrip(Tail(s), chars) ELSE s

RECURSIVE RStrip(_, _)
RStrip(s, chars) == IF s # <<>> /\ s[Len(s)] \in chars
                    THEN RStrip(SubSeq(s, 1, Len(s) - 1), chars) ELSE s

\* s.strip(chars): removes every leading and every trailing piece in chars
StripChars(s, chars) == RStrip(LStrip(s, chars), chars)

Whitespace == {" "}

\* s.strip()
Strip(s) == StripChars(s, Whitespace)

IsDigits(s) == s # <<>> /\ \A i \in 1..Len(s) : \E d \in 1..10 : DigitChar[d] = s[i]

DigitVal(c) == (CHOOSE d \in 1..10 : DigitChar[d] = c) - 1

RECURSIVE DigitsVal(_)
DigitsVal(s) == IF s = <<>> THEN 0
                ELSE DigitsVal(SubSeq(s, 1, Len(s) - 1)) * 10 + DigitVal(s[Len(s)])

Quoted(s) == <<"'">> \o s \o <<"'">>

Ok(v)    == [ok |-> TRUE, val |-> v, msg |-> <<>>]
Raise(m) == [ok |-> FALSE, val |-> 0, msg |-> m]

\* float(v): numbers convert, strings are parsed after trimming whitespace
\* (only unsigned digit strings occur in the model), anything else raises
ToFloat(v) ==
    CASE v.k = "num" -> Ok(v.n)
      [] v.k = "str" -> IF IsDigits(Strip(v.s))
                        THEN Ok(DigitsVal(Strip(v.s)) * Scale)
                        ELSE Raise(<<"could not convert string to float: ">> \o Quoted(v.s))
      [] OTHER -> Raise(<<"float() argument must be a string or a real number, not ">>
                        \o Quoted(<<TypeName(v)>>))

----------------------------------------------------------------------------
(* Text and JSON documents *)

\* A raw text (argument, standard input, response body) is a sequence of
\* chunks: a run of whitespace, or the text of one JSON document.  A document
\* is a mapping (kind "map", its content in m), another JSON value (kind
\* "list") or malformed text (kind "bad").
Doc(kind, m) == [kind |-> kind, m |-> m]
WS == [ws |-> TRUE, doc |-> Doc("bad", <<>>)]
Text(d) == [ws |-> FALSE, doc |-> d]

\* json.loads(raw): surrounding whitespace is skipped, exactly one well-formed
\* document must remain
JsonLoads(raw) ==
    LET t == StripChars(raw, {WS})
    IN  IF t = <<>> \/ t[1].doc.kind = "bad"
        THEN Raise(<<"Expecting value: line 1 column 1 (char 0)">>)
        ELSE IF Len(t) > 1
        THEN Raise(<<"Extra data: line 1 column 2 (char 1)">>)
        ELSE Ok(t[1].doc)

\* _http_get_json(url) against a server whose behaviour is `server`: the
\* transport raises, or the body is parsed
HttpGetJson(server) ==
    IF server.neterr THEN Raise(<<"<urlopen error [Errno 111] Connection refused>">>)
    ELSE JsonLoads(server.text)

NoAttrGet(tn) == Quoted(<<tn>>) \o <<" object has no attribute ">> \o Quoted(<<"get">>)

\* payload.get / `in` on a parsed document that is not a mapping
DocTypeName(d) == IF d.kind = "map" THEN "dict" ELSE "list"

----------------------------------------------------------------------------
(* Location resolution, lines 18-41 *)

\* the text of the message of line 27, without its backquotes
InputErrorMsg == <<"Input must include location or (latitude, longitude).">>
NoResultPrefix == <<"No geocoding result for location: ">>
EmptyStr == JStr(<<>>)

\* BothCoords yielding to a location when there is one
BothCoordsNoLocation(m) ==
    Has(m, "latitude") /\ Has(m, "longitude") /\ ~Has(m, "location")

\* line 19
BothCoords(m) == Has(m, "latitude") /\ Has(m, "longitude")

\* lines 20-23: the coordinate branch
ResolveDirect(m) ==
    LET la == ToFloat(m.latitude)
        lo == ToFloat(m.longitude)
    IN  IF ~la.ok THEN Raise(la.msg)
        ELSE IF ~lo.ok THEN Raise(lo.msg)
        ELSE Ok([latitude |-> la.val, longitude |-> lo.val,
                 name |-> PyStr(PyOr(Get(m, "location"),
                                     JStr(CoordName(la.val, lo.val))))])

\* QueryLocation without .strip()
QueryLocationUntrimmed(m) == PyStr(GetD(m, "location", EmptyStr))

\* line 25
QueryLocation(m) == Strip(PyStr(GetD(m, "location", EmptyStr)))

\* line 39
Country(top) == PyOr(PyOr(Get(top, "country_code"), Get(top, "country")), EmptyStr)

\* line 40
ResolvedName(top, location) ==
    StripChars(PyStr(GetD(top, "name", JStr(location))) \o <<",", " ">> \o PyStr(Country(top)),
               {",", " "})

\* ResolveFromGeo whose lookup error does not name the location
ResolveFromGeoAnonymous(geo_data, location) ==
    LET results == PyOr(Get(geo_data, "results"), JList(<<>>))
        top     == results.l[1]
    IN  IF ~Truthy(results) THEN Raise(NoResultPrefix)
        ELSE IF ~Has(top, "latitude") THEN Raise(Quoted(<<"latitude">>))
        ELSE IF ~ToFloat(top.latitude).ok THEN Raise(ToFloat(top.latitude).msg)
        ELSE IF ~Has(top, "longitude") THEN Raise(Quoted(<<"longitude">>))
        ELSE IF ~ToFloat(top.longitude).ok THEN Raise(ToFloat(top.longitude).msg)
        ELSE Ok([latitude |-> ToFloat(top.latitude).val,
                 longitude |-> ToFloat(top.longitude).val,
                 name |-> ResolvedName(top, location)])

\* lines 32-41: the rest of _resolve_coords once the geocoding response is parsed
ResolveFromGeo(geo_data, location) ==
    LET results == PyOr(Get(geo_data, "results"), JList(<<>>))
        top     == results.l[1]
    IN  IF ~Truthy(results) THEN Raise(NoResultPrefix \o location)
        ELSE IF ~Has(top, "latitude") THEN Raise(Quoted(<<"latitude">>))
        ELSE IF ~ToFloat(top.latitude).ok THEN Raise(ToFloat(top.latitude).msg)
        ELSE IF ~Has(top, "longitude") THEN Raise(Quoted(<<"longitude">>))
        ELSE IF ~ToFloat(top.longitude).ok THEN Raise(ToFloat(top.longitude).msg)
        ELSE Ok([latitude |-> ToFloat(top.latitude).val,
                 longitude |-> ToFloat(top.longitude).val,
                 name |-> ResolvedName(top, location)])

----------------------------------------------------------------------------
(* Output formatting, lines 73-93 *)

\* A nested value of the forecast (current, daily) is [k, m]: absent,
\* null, a number, or a mapping with content m.
MV(k, m) == [k |-> k, m |-> m]
NoCurrent == [temperature_2m |-> Absent, weather_code |-> Absent, wind_speed_10m |-> Absent]
NoDaily == [temperature_2m_max |-> Absent, temperature_2m_min |-> Absent,
            weather_code |-> Absent]

MVTypeName(v) == CASE v.k = "null" -> "NoneType" [] v.k = "num" -> "int" [] OTHER -> "dict"

\* First without the `or [None]` default: daily[key][0]
FirstStrict(daily, key) ==
    IF ~Has(daily, key) THEN Raise(Quoted(<<key>>))
    ELSE IF daily[key].k = "list" /\ daily[key].l # <<>> THEN Ok(daily[key].l[1])
    ELSE IF daily[key].k = "list" THEN Raise(<<"list index out of range">>)
    ELSE Raise(Quoted(<<TypeName(daily[key])>>) \o <<" object is not subscriptable">>)

\* (daily.get(key) or [None])[0]
First(daily, key) ==
    LET a == PyOr(Get(daily, key), JList(<<JNull>>))
    IN  IF a.k = "list" THEN Ok(a.l[1])
        ELSE Raise(Quoted(<<TypeName(a)>>) \o <<" object is not subscriptable">>)

\* lines 73-89: the output mapping, or the failure of building it
BuildOutput(forecast, res) ==
    LET current == IF forecast.m.current.k = "absent" THEN MV("map", NoCurrent)
                   ELSE forecast.m.current
        daily   == IF forecast.m.daily.k = "absent" THEN MV("map", NoDaily)
                   ELSE forecast.m.daily
        mx == First(daily.m, "temperature_2m_max")
        mn == First(daily.m, "temperature_2m_min")
        wc == First(daily.m, "weather_code")
    IN  IF forecast.kind # "map" THEN Raise(NoAttrGet(DocTypeName(forecast)))
        ELSE IF current.k # "map" THEN Raise(NoAttrGet(MVTypeName(current)))
        ELSE IF daily.k # "map" THEN Raise(NoAttrGet(MVTypeName(daily)))
        ELSE IF ~mx.ok THEN Raise(mx.msg)
        ELSE IF ~mn.ok THEN Raise(mn.msg)
        ELSE IF ~wc.ok THEN Raise(wc.msg)
        ELSE Ok([resolved_location |-> res.name,
                 latitude |-> res.latitude,
                 longitude |-> res.longitude,
                 current |-> [temperature_c |-> Get(current.m, "temperature_2m"),
                              weather_code |-> Get(current.m, "weather_code"),
                              wind_kmh |-> Get(current.m, "wind_speed_10m")],
                 today |-> [temp_max_c |-> mx.val,
                            temp_min_c |-> mn.val,
                            weather_code |-> wc.val]])

\* Tokens of a serialized JSON text
Punct(c) == [t |-> "punct", v |-> JStr(<<c>>)]
Sep(c)   == [t |-> "sep", v |-> JStr(<<c>>)]
Key(c)   == [t |-> "key", v |-> JStr(<<c>>)]
Val(v)   == [t |-> "val", v |-> v]

RECURSIVE DumpMembers(_, _, _)
DumpMembers(members, item_sep, key_sep) ==
    IF members = <<>> THEN <<>>
    ELSE <<Key(members[1][1]), Sep(key_sep)>> \o members[1][2]
         \o (IF Len(members) > 1 THEN <<Sep(item_sep)>> ELSE <<>>)
         \o DumpMembers(Tail(members), item_sep, key_sep)

\* json.dumps of a mapping whose members are <<key, tokens of the value>>
DumpObject(members, item_sep, key_sep) ==
    <<Punct("{")>> \o DumpMembers(members, item_sep, key_sep) \o <<Punct("}")>>

\* line 90: json.dumps(output, separators=(",", ":"))
DumpOutput(o) ==
    DumpObject(<< <<"resolved_location", <<Val(JStr(o.resolved_location))>> >>,
                  <<"latitude", <<Val(JNum(o.latitude))>> >>,
                  <<"longitude", <<Val(JNum(o.longitude))>> >>,
                  <<"current", DumpObject(<< <<"temperature_c", <<Val(o.current.temperature_c)>> >>,
                                             <<"weather_code", <<Val(o.current.weather_code)>> >>,
                                             <<"wind_kmh", <<Val(o.current.wind_kmh)>> >> >>,
                                          ",", ":")>>,
                  <<"today", DumpObject(<< <<"temp_max_c", <<Val(o.today.temp_max_c)>> >>,
                                           <<"temp_min_c", <<Val(o.today.temp_min_c)>> >>,
                                           <<"weather_code", <<Val(o.today.weather_code)>> >> >>,
                                        ",", ":")>> >>,
               ",", ":")

\* DumpError printing a fixed text in place of str(error)
DumpErrorGeneric(msg) ==
    DumpObject(<< <<"error", <<Val(JStr(<<"request failed">>))>> >> >>, ", ", ": ")

\* line 93: json.dumps({"error": str(error)}), default separators
DumpError(msg) == DumpObject(<< <<"error", <<Val(JStr(msg))>> >> >>, ", ", ": ")

----------------------------------------------------------------------------
(* The inputs and the two servers a run can meet *)

Alphabet == {" ", ",", "a"}
Strings(n) == UNION {[1..k -> Alphabet] : k \in 0..n}

EmptyPayload == [latitude |-> Absent, longitude |-> Absent, location |-> Absent]

\* 52.52, "7", "a"
LatValues == {Absent, JNum(5252000), JStr(<<"7">>), JStr(<<"a">>)}
\* 13.405, -1.23456, null
LonValues == {Absent, JNum(1340500), JNum(-123456), JNull}
LocValues == {Absent, JNull} \cup {JStr(s) : s \in Strings(MaxStrLen)}

Payloads == [latitude : LatValues, longitude : LonValues, location : LocValues]

Berlin == [latitude |-> Absent, longitude |-> Absent, location |-> JStr(<<"a">>)]
Coords == [latitude |-> JNum(5252000), longitude |-> JNum(1340500), location |-> Absent]

NoArg == [present |-> FALSE, text |-> <<>>]
Arg(t) == [present |-> TRUE, text |-> t]
In(a, t) == [argv |-> a, stdin |-> t]
MapText(m) == <<Text(Doc("map", m))>>
BadText == <<Text(Doc("bad", EmptyPayload))>>
ListText == <<Text(Doc("list", EmptyPayload))>>

\* every payload on standard input, and the ways the raw text itself varies
InputsWide ==
    {In(NoArg, MapText(p)) : p \in Payloads}
    \cup {In(Arg(MapText(p)), <<>>) : p \in {Berlin, Coords, EmptyPayload}}
    \cup {In(NoArg, t) : t \in {<<>>, <<WS>>, BadText, ListText,
                                <<WS>> \o MapText(Berlin) \o <<WS>>,
                                MapText(Berlin) \o MapText(Coords)}}
    \cup {In(Arg(t), MapText(Berlin)) : t \in {<<>>, <<WS>>, BadText,
                                               <<WS>> \o MapText(Coords)}}

InputsFew == {In(NoArg, MapText(p)) :
                p \in {Berlin, Coords,
                       [Berlin EXCEPT !.location = JStr(<<",", "a">>)],
                       [Berlin EXCEPT !.location = JStr(<<" ", "a">>)],
                       [Coords EXCEPT !.location = JStr(<<"a", " ">>)]}}

Server(neterr, text) == [neterr |-> neterr, text |-> text]

Top(la, lo, name, cc, c) ==
    [latitude |-> la, longitude |-> lo, name |-> name, country_code |-> cc, country |-> c]
Top0 == Top(JNum(4840000), JNum(220000), JStr(<<"a">>), JStr(<<"D">>), Absent)
Top1 == Top(JNum(100000), JNum(200000), JStr(<<"b">>), Absent, JStr(<<"G">>))

GeoBody(results) == [results |-> results]
NoGeoBody == GeoBody(Absent)

NameValues == {Absent, JNull} \cup
              {JStr(s) : s \in {<<>>, <<"a">>, <<" ", "a">>, <<"a", " ">>, <<",", "a">>,
                                <<"a", ",">>, <<"a", ",", " ">>}}
CodeValues == {Absent, JNull, JStr(<<>>), JStr(<<"D">>), JStr(<<"D", " ">>)}
CountryValues == {Absent, JStr(<<>>), JStr(<<"G">>)}

Tops == {Top(Top0.latitude, Top0.longitude, n, cc, c) :
            n \in NameValues, cc \in CodeValues, c \in CountryValues}
        \cup {Top(la, lo, Top0.name, Top0.country_code, Top0.country) :
                la \in {Absent, JStr(<<"7">>), JStr(<<"a">>)}, lo \in {Top0.longitude}}
        \cup {Top(la, lo, Top0.name, Top0.country_code, Top0.country) :
                la \in {Top0.latitude}, lo \in {Absent, JNull}}

GeoOk(results) == Server(FALSE, <<Text(Doc("map", GeoBody(results)))>>)

GeoFew == {Server(TRUE, <<>>), GeoOk(JList(<<Top0>>)), GeoOk(JList(<<>>))}
GeoWide == {GeoOk(JList(<<t>>)) : t \in Tops}
           \cup {GeoOk(JList(<<t, Top1>>)) : t \in {Top0, Top1}}
           \cup {GeoOk(Absent), GeoOk(JNull), GeoOk(JList(<<>>)),
                 Server(TRUE, <<>>),
                 Server(FALSE, <<Text(Doc("bad", NoGeoBody))>>),
                 Server(FALSE, <<Text(Doc("list", NoGeoBody))>>),
                 Server(FALSE, <<>>)}

FullCurrent == [temperature_2m |-> JNum(2150000), weather_code |-> JNum(300000),
                wind_speed_10m |-> JNum(1200000)]
CurrentValues == {MV("absent", NoCurrent), MV("null", NoCurrent), MV("num", NoCurrent),
                  MV("map", NoCurrent), MV("map", FullCurrent),
                  MV("map", [FullCurrent EXCEPT !.temperature_2m = Absent]),
                  MV("map", [FullCurrent EXCEPT !.weather_code = JNull])}

Items == {JNull, JNum(700000)}
Arrays(n) == UNION {[1..k -> Items] : k \in 0..n}
ArrayValues == {Absent, JNull, JNum(0), JNum(500000)} \cup {JList(l) : l \in Arrays(MaxArrLen)}
FullDaily == [temperature_2m_max |-> JList(<<JNum(2500000)>>),
              temperature_2m_min |-> JList(<<JNum(1100000)>>),
              weather_code |-> JList(<<JNum(6100000)>>)]
DailyValues == {MV("absent", NoDaily), MV("null", NoDaily), MV("num", NoDaily)} \cup
               {MV("map", d) : d \in [temperature_2m_max : ArrayValues,
                                      temperature_2m_min : ArrayValues,
                                      weather_code : ArrayValues]}

FcBody(current, daily) == [current |-> current, daily |-> daily]
NoFcBody == FcBody(MV("absent", NoCurrent), MV("absent", NoDaily))
FcOk(current, daily) == Server(FALSE, <<Text(Doc("map", FcBody(current, daily)))>>)

FcFew == {Server(TRUE, <<>>), FcOk(MV("map", FullCurrent), MV("map", FullDaily)),
          Server(FALSE, <<Text(Doc("map", NoFcBody))>>)}
FcWide == {FcOk(c, d) : c \in CurrentValues, d \in DailyValues}
          \cup {Server(TRUE, <<>>),
                Server(FALSE, <<Text(Doc("bad", NoFcBody))>>),
                Server(FALSE, <<Text(Doc("list", NoFcBody))>>)}

\* the runs explored: each of input, geocoding server and forecast server is
\* varied in full against a few values of the other two
Scenarios ==
    (InputsWide \X GeoFew \X FcFew)
    \cup (InputsFew \X GeoWide \X FcFew)
    \cup (InputsFew \X GeoFew \X FcWide)

----------------------------------------------------------------------------
(* One run of main(), lines 55-94 *)

VARIABLES
    argv,         \* sys.argv[1], when present
    stdin,        \* the text on standard input
    geo_server,   \* what the geocoding endpoint answers
    fc_server,    \* what the forecast endpoint answers
    pc,           \* the stage main() is about to execute
    stages,       \* the stages executed so far, in order
    user_input,   \* line 57
    location,     \* line 25, while the geocoding request is outstanding
    resolved,     \* line 58: latitude, longitude, resolved_name
    forecast,     \* line 71
    output,       \* line 75
    err,          \* the message of the exception caught at line 92
    reqs,         \* the HTTP requests issued so far, in order
    stdout,       \* the lines printed so far
    exit_code     \* the value main() returned, -1 while it runs

vars == <<argv, stdin, geo_server, fc_server, pc, stages, user_input, location,
          resolved, forecast, output, err, reqs, stdout, exit_code>>

env == <<argv, stdin, geo_server, fc_server>>

Running == -1
NoDoc == Doc("unset", <<>>)
Unresolved == [done |-> FALSE, latitude |-> 0, longitude |-> 0, name |-> <<>>]
Resolved(r) == [done |-> TRUE, latitude |-> r.latitude, longitude |-> r.longitude,
                name |-> r.name]

GeoRequest(name) == [endpoint |-> "geocoding", name |-> name, latitude |-> 0, longitude |-> 0]
ForecastRequest(lat, lon) ==
    [endpoint |-> "forecast", name |-> <<>>, latitude |-> lat, longitude |-> lon]

Init ==
    /\ \E sc \in Scenarios :
          /\ argv = sc[1].argv
          /\ stdin = sc[1].stdin
          /\ geo_server = sc[2]
          /\ fc_server = sc[3]
    /\ pc = "reading_input"
    /\ stages = <<>>
    /\ user_input = NoDoc
    /\ location = <<>>
    /\ resolved = Unresolved
    /\ forecast = NoDoc
    /\ output = <<>>
    /\ err = <<>>
    /\ reqs = <<>>
    /\ stdout = <<>>
    /\ exit_code = Running

\* ReportError returning 0
ReportErrorExitZero(msg) ==
    /\ err' = <<msg>>
    /\ stdout' = Append(stdout, DumpError(msg))
    /\ exit_code' = 0
    /\ pc' = "error_reported"

\* lines 92-94: the handler of every exception raised inside the try block
ReportError(msg) ==
    /\ err' = <<msg>>
    /\ stdout' = Append(stdout, DumpError(msg))
    /\ exit_code' = 1
    /\ pc' = "error_reported"

\* lines 44-52
ReadInputResult ==
    LET raw == IF argv.present THEN argv.text ELSE StripChars(stdin, {WS})
    IN  IF raw = <<>> THEN Ok(Doc("map", EmptyPayload)) ELSE JsonLoads(raw)

\* line 57
ReadInput ==
    /\ pc = "reading_input"
    /\ stages' = Append(stages, "reading input")
    /\ IF ReadInputResult.ok
       THEN /\ user_input' = ReadInputResult.val
            /\ pc' = "resolving_location"
            /\ UNCHANGED <<err, stdout, exit_code>>
       ELSE /\ ReportError(ReadInputResult.msg)
            /\ UNCHANGED user_input
    /\ UNCHANGED <<env, location, resolved, forecast, output, reqs>>

\* line 58, up to the return of line 23, the raise of line 27 or the request
\* of line 31
ResolveCoords ==
    /\ pc = "resolving_location"
    /\ stages' = Append(stages, "resolving location")
    /\ IF user_input.kind # "map"
       THEN /\ ReportError(NoAttrGet(DocTypeName(user_input)))
            /\ UNCHANGED <<location, resolved, reqs>>
       ELSE IF BothCoords(user_input.m)
       THEN IF ResolveDirect(user_input.m).ok
            THEN /\ resolved' = Resolved(ResolveDirect(user_input.m).val)
                 /\ pc' = "fetching_forecast"
                 /\ UNCHANGED <<location, reqs, err, stdout, exit_code>>
            ELSE /\ ReportError(ResolveDirect(user_input.m).msg)
                 /\ UNCHANGED <<location, resolved, reqs>>
       ELSE IF QueryLocation(user_input.m) = <<>>
       THEN /\ ReportError(InputErrorMsg)
            /\ UNCHANGED <<location, resolved, reqs>>
       ELSE /\ location' = QueryLocation(user_input.m)
            /\ reqs' = Append(reqs, GeoRequest(QueryLocation(user_input.m)))
            /\ pc' = "geocoding"
            /\ UNCHANGED <<resolved, err, stdout, exit_code>>
    /\ UNCHANGED <<env, user_input, forecast, output>>

\* lines 31-41 applied to the answer of the geocoding server
GeoResult ==
    LET geo == HttpGetJson(geo_server)
    IN  IF ~geo.ok THEN Raise(geo.msg)
        ELSE IF geo.val.kind # "map" THEN Raise(NoAttrGet(DocTypeName(geo.val)))
        ELSE ResolveFromGeo(geo.val.m, location)

\* the geocoding response arrives: lines 31-41
GeoResponse ==
    /\ pc = "geocoding"
    /\ location' = <<>>
    /\ IF GeoResult.ok
       THEN /\ resolved' = Resolved(GeoResult.val)
            /\ pc' = "fetching_forecast"
            /\ UNCHANGED <<err, stdout, exit_code>>
       ELSE /\ ReportError(GeoResult.msg)
            /\ UNCHANGED resolved
    /\ UNCHANGED <<env, stages, user_input, forecast, output, reqs>>

\* FetchForecast issuing its request a second time
FetchForecastTwice ==
    /\ pc = "fetching_forecast"
    /\ stages' = Append(stages, "fetching forecast")
    /\ reqs' = reqs \o <<ForecastRequest(resolved.latitude, resolved.longitude),
                          ForecastRequest(resolved.latitude, resolved.longitude)>>
    /\ pc' = "awaiting_forecast"
    /\ UNCHANGED <<env, user_input, location, resolved, forecast, output, err, stdout,
                   exit_code>>

\* lines 60-71: the forecast request is issued
FetchForecast ==
    /\ pc = "fetching_forecast"
    /\ stages' = Append(stages, "fetching forecast")
    /\ reqs' = Append(reqs, ForecastRequest(resolved.latitude, resolved.longitude))
    /\ pc' = "awaiting_forecast"
    /\ UNCHANGED <<env, user_input, location, resolved, forecast, output, err, stdout,
                   exit_code>>

\* line 71: the forecast response arrives
ForecastResponse ==
    /\ pc = "awaiting_forecast"
    /\ IF HttpGetJson(fc_server).ok
       THEN /\ forecast' = HttpGetJson(fc_server).val
            /\ pc' = "formatting_output"
            /\ UNCHANGED <<err, stdout, exit_code>>
       ELSE /\ ReportError(HttpGetJson(fc_server).msg)
            /\ UNCHANGED forecast
    /\ UNCHANGED <<env, stages, user_input, location, resolved, output, reqs>>

\* lines 73-91
FormatOutput ==
    /\ pc = "formatting_output"
    /\ stages' = Append(stages, "formatting output")
    /\ IF BuildOutput(forecast, resolved).ok
       THEN /\ output' = <<BuildOutput(forecast, resolved).val>>
            /\ stdout' = Append(stdout, DumpOutput(BuildOutput(forecast, resolved).val))
            /\ exit_code' = 0
            /\ pc' = "done"
            /\ UNCHANGED err
       ELSE /\ ReportError(BuildOutput(forecast, resolved).msg)
            /\ UNCHANGED output
    /\ UNCHANGED <<env, user_input, location, resolved, forecast, reqs>>

Next ==
    \/ ReadInput
    \/ ResolveCoords
    \/ GeoResponse
    \/ FetchForecast
    \/ ForecastResponse
    \/ FormatOutput

Spec == Init /\ [][Next]_vars

\* the values of the control state and of the exit code
TypeOK ==
    /\ pc \in {"reading_input", "resolving_location", "geocoding", "fetching_forecast",
               "awaiting_forecast", "formatting_output", "done", "error_reported"}
    /\ exit_code \in {Running, 0, 1}
    /\ Len(stdout) <= 1

----------------------------------------------------------------------------
(* Reading the run from outside *)

Terminal == pc \in {"done", "error_reported"}

\* the keys and the values of a printed line, in the order they were printed
KeyNames(line) ==
    LET ks == SelectSeq(line, LAMBDA t : t.t = "key")
    IN  [i \in 1..Len(ks) |-> ks[i].v.s[1]]
Values(line) ==
    LET vs == SelectSeq(line, LAMBDA t : t.t = "val")
    IN  [i \in 1..Len(vs) |-> vs[i].v]
Separators(line) ==
    LET ss == SelectSeq(line, LAMBDA t : t.t = "sep")
    IN  {ss[i].v.s[1] : i \in 1..Len(ss)}

OutputKeys == <<"resolved_location", "latitude", "longitude", "current", "temperature_c",
                "weather_code", "wind_kmh", "today", "temp_max_c", "temp_min_c",
                "weather_code">>

IsOutputLine(line) == KeyNames(line) = OutputKeys /\ Len(Values(line)) = 9
IsErrorLine(line) ==
    /\ KeyNames(line) = <<"error">>
    /\ Len(Values(line)) = 1
    /\ Values(line)[1].k = "str"

Issued(endpoint) == {i \in 1..Len(reqs) : reqs[i].endpoint = endpoint}
Executed(stage) == \E i \in 1..Len(stages) : stages[i] = stage

----------------------------------------------------------------------------
(* Claims *)

\* C1: a run ends in exactly one of two outcomes: the full output object is
\* the only thing printed and the exit code is 0, or the error object is the
\* only thing printed and the exit code is 1; while the run has not ended
\* nothing is printed and there is no exit code.
C1_TwoOutcomes ==
    /\ Terminal <=> exit_code # Running
    /\ ~Terminal => stdout = <<>>
    /\ Terminal =>
         /\ Len(stdout) = 1
         /\ \/ exit_code = 0 /\ pc = "done" /\ IsOutputLine(stdout[1])
            \/ exit_code = 1 /\ pc = "error_reported" /\ IsErrorLine(stdout[1])
         /\ ~(IsOutputLine(stdout[1]) /\ IsErrorLine(stdout[1]))

C1_Witness ==
    /\ pc = "done"
    /\ exit_code = 0
    /\ Len(reqs) = 2
    /\ IsOutputLine(stdout[1])

PipelineStages == <<"reading input", "resolving location", "fetching forecast",
                    "formatting output">>

\* C2, the state reached by a failure: the exit code is 1, the only line
\* printed is the error object and its message is the message of the exception
\* caught; the stages executed are the pipeline up to the failing stage and
\* nothing a later stage produces exists.
C2_ErrorState ==
    pc = "error_reported" =>
        /\ exit_code = 1
        /\ Len(err) = 1
        /\ Len(stdout) = 1
        /\ IsErrorLine(stdout[1])
        /\ Values(stdout[1])[1] = JStr(err[1])
        /\ Len(stages) >= 1
        /\ stages = SubSeq(PipelineStages, 1, Len(stages))
        /\ output = <<>>
        /\ stages[Len(stages)] = "reading input" => reqs = <<>> /\ user_input = NoDoc
        /\ stages[Len(stages)] = "resolving location" =>
              Issued("forecast") = {} /\ ~resolved.done
        /\ stages[Len(stages)] = "fetching forecast" =>
              forecast = NoDoc /\ Issued("forecast") = {Len(reqs)}

\* C2: whichever stage fails, the run goes directly to the error-reported
\* state: the step that fails prints the error object with the message of the
\* failure and exits with code 1, it issues no request, and no step follows it.
C2_ErrorPropagation ==
    /\ []C2_ErrorState
    /\ [][pc' = "error_reported" => reqs' = reqs /\ stdout = <<>> /\ exit_code = Running]_vars
    /\ [][pc # "error_reported"]_vars

C2_Witness ==
    /\ pc = "error_reported"
    /\ stages = <<"reading input", "resolving location", "fetching forecast">>
    /\ Len(reqs) = 2
    /\ fc_server.neterr
    /\ Values(stdout[1])[1].s = <<"<urlopen error [Errno 111] Connection refused>">>

\* what the input's coordinates are as numbers, and as text with 4 decimals
InputNumber(v) == IF v = JStr(<<"7">>) THEN 700000 ELSE v.n
FourDecimals(n) ==
    CASE n = 5252000 -> <<"5", "2", ".", "5", "2", "0", "0">>
      [] n = 700000  -> <<"7", ".", "0", "0", "0", "0">>
      [] n = 1340500 -> <<"1", "3", ".", "4", "0", "5", "0">>
      [] n = -123456 -> <<"-", "1", ".", "2", "3", "4", "6">>

InputHasCoords ==
    /\ user_input.kind = "map"
    /\ user_input.m.latitude.k # "absent"
    /\ user_input.m.longitude.k # "absent"

\* C3: when the input mapping has both the latitude and the longitude key, no
\* geocoding request is ever issued; once the coordinates are resolved they are
\* the input's, and the display name is the input's location when that is a
\* non-empty string, else the two coordinates with 4 decimals joined by a comma.
C3_CoordinatePassthrough ==
    InputHasCoords =>
        /\ Issued("geocoding") = {}
        /\ pc # "geocoding"
        /\ resolved.done =>
              /\ resolved.latitude = InputNumber(user_input.m.latitude)
              /\ resolved.longitude = InputNumber(user_input.m.longitude)
              /\ resolved.name =
                    IF user_input.m.location.k = "str" /\ user_input.m.location.s # <<>>
                    THEN user_input.m.location.s
                    ELSE FourDecimals(resolved.latitude) \o <<",">>
                         \o FourDecimals(resolved.longitude)

C3_Witness ==
    /\ pc = "done"
    /\ user_input = Doc("map", Coords)
    /\ reqs = <<ForecastRequest(5252000, 1340500)>>
    /\ Values(stdout[1])[1].s =
          <<"5", "2", ".", "5", "2", "0", "0", ",", "1", "3", ".", "4", "0", "5", "0">>

IsBlank(s) == \A i \in 1..Len(s) : s[i] = " "

RawInputEmpty == IF argv.present THEN argv.text = <<>>
                 ELSE \A i \in 1..Len(stdin) : stdin[i].ws

LocationBlank ==
    /\ user_input.kind = "map"
    /\ ~(user_input.m.latitude.k # "absent" /\ user_input.m.longitude.k # "absent")
    /\ \/ user_input.m.location.k = "absent"
       \/ user_input.m.location.k = "str" /\ IsBlank(user_input.m.location.s)

\* C4: when the input lacks one of the coordinate keys and its location is
\* missing, empty or only whitespace, no request is ever issued and the run
\* ends, at location resolution, with the error object and exit code 1; absent
\* or empty raw input is read as the empty mapping and is such an input.
C4_EmptyLocationFailsFast ==
    /\ RawInputEmpty /\ pc # "reading_input" =>
          user_input = Doc("map", EmptyPayload) /\ LocationBlank
    /\ LocationBlank =>
          /\ reqs = <<>>
          /\ pc \in {"resolving_location", "error_reported"}
          /\ pc = "error_reported" =>
                /\ exit_code = 1
                /\ stages = <<"reading input", "resolving location">>
                /\ Len(stdout) = 1
                /\ IsErrorLine(stdout[1])

C4_Witness ==
    /\ pc = "error_reported"
    /\ user_input.kind = "map"
    /\ user_input.m.location = JStr(<<" ", " ">>)
    /\ reqs = <<>>
    /\ exit_code = 1

GeoAnswered ==
    /\ ~geo_server.neterr
    /\ Len(geo_server.text) = 1
    /\ geo_server.text[1].doc.kind = "map"

\* C5, the requests of a run at any moment: at most one geocoding request, at
\* most one forecast request, geocoding first; a forecast request only once the
\* location is resolved, which in the lookup branch takes an answer with a
\* non-empty result list; exit code 0 only with exactly one forecast request.
C5_RequestLog ==
    /\ Cardinality(Issued("geocoding")) <= 1
    /\ Cardinality(Issued("forecast")) <= 1
    /\ Len(reqs) = Cardinality(Issued("geocoding")) + Cardinality(Issued("forecast"))
    /\ \A i \in Issued("geocoding"), j \in Issued("forecast") : i < j
    /\ Issued("forecast") # {} =>
          /\ resolved.done
          /\ Issued("geocoding") # {} =>
                /\ GeoAnswered
                /\ geo_server.text[1].doc.m.results.k = "list"
                /\ geo_server.text[1].doc.m.results.l # <<>>
    /\ exit_code = 0 => Cardinality(Issued("forecast")) = 1

\* C5: requests follow the order geocoding then forecast without repetition,
\* the forecast request needs a resolved location, a successful run issued
\* exactly one forecast request, and a step that ends the run with an error
\* issues no request (a failed request is not retried).
C5_RequestOrder ==
    /\ []C5_RequestLog
    /\ [][Len(reqs') >= Len(reqs) /\ SubSeq(reqs', 1, Len(reqs)) = reqs]_vars
    /\ [][pc' = "error_reported" => reqs' = reqs]_vars

C5_Witness ==
    /\ pc = "done"
    /\ Len(reqs) = 2
    /\ reqs[1].endpoint = "geocoding"
    /\ reqs[2].endpoint = "forecast"

Contains(s, t) == \E i \in 1..(Len(s) - Len(t) + 1) : SubSeq(s, i, i + Len(t) - 1) = t

\* t is s without its leading and trailing whitespace
IsTrimOf(t, s) ==
    \E i \in 1..(Len(s) + 1), j \in 0..Len(s) :
        /\ t = SubSeq(s, i, j)
        /\ \A k \in 1..Len(s) : (k < i \/ k > j) => s[k] = " "
        /\ t # <<>> => t[1] # " " /\ t[Len(t)] # " "

NoGeoResults ==
    /\ GeoAnswered
    /\ \/ geo_server.text[1].doc.m.results.k = "absent"
       \/ geo_server.text[1].doc.m.results = JList(<<>>)

\* C6: in the lookup branch, when the geocoding response has no results list
\* or an empty one, the run ends with exit code 1 and an error object whose
\* message contains the trimmed location that was queried, and no forecast
\* request is issued.
C6_NoGeocodingResults ==
    (Issued("geocoding") # {} /\ NoGeoResults /\ user_input.m.location.k = "str") =>
        /\ Issued("forecast") = {}
        /\ pc \in {"geocoding", "error_reported"}
        /\ IsTrimOf(reqs[1].name, user_input.m.location.s)
        /\ pc = "error_reported" =>
              /\ exit_code = 1
              /\ Len(stdout) = 1
              /\ IsErrorLine(stdout[1])
              /\ \E t \in {SubSeq(user_input.m.location.s, i, j) :
                             i \in 1..Len(user_input.m.location.s),
                             j \in 1..Len(user_input.m.location.s)} :
                    /\ IsTrimOf(t, user_input.m.location.s)
                    /\ Contains(Values(stdout[1])[1].s, t)

C6_Witness ==
    /\ pc = "error_reported"
    /\ user_input.kind = "map"
    /\ user_input.m.location = JStr(<<" ", "a">>)
    /\ geo_server = GeoOk(JList(<<>>))
    /\ Len(reqs) = 1
    /\ Values(stdout[1])[1].s = <<"No geocoding result for location: ", "a">>

\* the values printed for current and for today, in output order
PrintedCurrent == SubSeq(Values(stdout[1]), 4, 6)
PrintedToday == SubSeq(Values(stdout[1]), 7, 9)
DailyKeys == <<"temperature_2m_max", "temperature_2m_min", "weather_code">>

Formatted == Executed("formatting output") /\ forecast.kind = "map"

\* C7 as stated: for every forecast response that is a mapping the run exits
\* with code 0; an absent current gives three nulls; an absent daily or an
\* absent daily array gives a null today field, and otherwise the today field
\* is element 0 of its array.
C7_AsStated ==
    Formatted =>
        /\ exit_code = 0
        /\ forecast.m.current.k = "absent" => PrintedCurrent = <<JNull, JNull, JNull>>
        /\ \A i \in 1..3 :
              IF forecast.m.daily.k = "absent" \/ forecast.m.daily.m[DailyKeys[i]].k = "absent"
              THEN PrintedToday[i] = JNull
              ELSE /\ forecast.m.daily.m[DailyKeys[i]].k = "list"
                   /\ forecast.m.daily.m[DailyKeys[i]].l # <<>>
                   /\ PrintedToday[i] = forecast.m.daily.m[DailyKeys[i]].l[1]

ForecastWellTyped ==
    /\ forecast.m.current.k \in {"absent", "map"}
    /\ forecast.m.daily.k \in {"absent", "map"}
    /\ \A i \in 1..3 : forecast.m.daily.m[DailyKeys[i]].k \in {"absent", "null", "list"}

\* C7 (amended): for every forecast response that is a mapping in which
\* current and daily are each absent or a mapping and every daily array is
\* absent, null or a list, the run exits with code 0; an absent current gives
\* three nulls; a daily array that is absent (or whose daily is absent), null
\* or empty gives a null today field, and otherwise the today field is element
\* 0 of its array.
C7_MissingFieldsNull ==
    (Formatted /\ ForecastWellTyped) =>
        /\ exit_code = 0
        /\ pc = "done"
        /\ forecast.m.current.k = "absent" => PrintedCurrent = <<JNull, JNull, JNull>>
        /\ \A i \in 1..3 :
              IF \/ forecast.m.daily.k = "absent"
                 \/ forecast.m.daily.m[DailyKeys[i]].k \in {"absent", "null"}
                 \/ forecast.m.daily.m[DailyKeys[i]].l = <<>>
              THEN PrintedToday[i] = JNull
              ELSE PrintedToday[i] = forecast.m.daily.m[DailyKeys[i]].l[1]

C7_Witness ==
    /\ pc = "done"
    /\ exit_code = 0
    /\ forecast.m.daily.k = "absent"
    /\ forecast.m.current.k = "map"
    /\ PrintedToday = <<JNull, JNull, JNull>>

\* C8: the standard output of every finished run is exactly one line of
\* compact JSON, no whitespace in the separators between its tokens, for the
\* success object and for the error object alike.
C8_CompactOneLine ==
    Terminal =>
        /\ Len(stdout) = 1
        /\ Separators(stdout[1]) \subseteq {",", ":"}

NonEmptyStr(v) == v.k = "str" /\ v.s # <<>>

\* C10: after a lookup with a non-empty result list the resolved location comes
\* from the first result: its coordinates; the country is country_code if
\* non-empty, else country if non-empty, else empty; the result name is the
\* name field, or the query when there is none; the display name is exactly
\* "<result name>, <country>" when the country is non-empty and exactly the
\* result name when it is empty.
C10_DisplayName ==
    (Issued("geocoding") # {} /\ resolved.done) =>
        LET top     == geo_server.text[1].doc.m.results.l[1]
            country == IF NonEmptyStr(top.country_code) THEN top.country_code.s
                       ELSE IF NonEmptyStr(top.country) THEN top.country.s
                       ELSE <<>>
            rname   == IF top.name.k = "absent" THEN reqs[1].name ELSE top.name.s
        IN  /\ resolved.latitude = InputNumber(top.latitude)
            /\ resolved.longitude = InputNumber(top.longitude)
            /\ top.name.k \in {"absent", "str"} =>
                  resolved.name = IF country # <<>> THEN rname \o <<",", " ">> \o country
                                  ELSE rname

====
